---- MODULE Spec2Model ----
(***************************************************************************)
(* PortfolioOptimizer (src/src/optimizer.py): the pipeline run() executes,  *)
(* one action per method.  Data frames are sequences of records (row order  *)
(* decides drop_duplicates / to_dict), index sets are sequences in order of *)
(* first appearance (pandas unique()), dictionaries are functions, and the  *)
(* Gurobi model is the list of linear constraints handed to addConstr.      *)
(***************************************************************************)
EXTENDS Integers, Sequences, FiniteSets, TLC

\* ---------------------------------------------------------------- bounds
MaxObras   == 2      \* rows of the Obras sheet
MaxEstoque == 2      \* rows of the Estoque sheet
MaxFlow    == 4      \* largest value tried for a transfer variable t

\* ------------------------------------------------------- input universes
Tasks  == {"T1", "T2"}
Sites  == {"S1", "S2"}
Mats   == {"M1", "M2"}

ObraRow(i, j, p, m, d) ==
    [obra |-> i, cod_dep |-> j, prioridade |-> p, cod_mat |-> m, qtd_dem |-> d]

EstoqueRow(j, m, e) == [cod_dep |-> j, cod_mat |-> m, estoque |-> e]

SeqsOf(R, lo, hi) == UNION {[1..n -> R] : n \in lo..hi}

\* ------------------------------------------------------- pandas helpers
Range(s) == {s[k] : k \in DOMAIN s}

\* df[col] as a sequence of values
Column(df, col) == [k \in DOMAIN df |-> df[k][col]]

\* Series.unique(): distinct values, order of first appearance
RECURSIVE Unique(_)
Unique(s) ==
    IF s = <<>> THEN <<>>
    ELSE LET r    == Unique(SubSeq(s, 1, Len(s) - 1))
             last == s[Len(s)]
         IN  IF last \in Range(r) THEN r ELSE Append(r, last)

\* the projection of a row on a list of columns
Proj(r, cols) == [k \in DOMAIN cols |-> r[cols[k]]]

\* DataFrame.drop_duplicates(subset=cols): keeps the first row of each key
RECURSIVE DropDuplicates(_, _)
DropDuplicates(df, cols) ==
    IF df = <<>> THEN <<>>
    ELSE LET r    == DropDuplicates(SubSeq(df, 1, Len(df) - 1), cols)
             last == df[Len(df)]
         IN  IF \E k \in DOMAIN r : Proj(r[k], cols) = Proj(last, cols)
             THEN r ELSE Append(r, last)

\* df.groupby(by).agg({col: 'unique'}).to_dict()[col]
GroupUnique(df, by, col) ==
    [g \in Range(Column(df, by)) |->
        Unique(Column(SelectSeq(df, LAMBDA r : r[by] = g), col))]

\* the last row of df whose projection on cols is key (dict built row by row:
\* a later row overwrites an earlier one with the same key)
LastRow(df, cols, key) ==
    df[CHOOSE k \in DOMAIN df :
          /\ Proj(df[k], cols) = key
          /\ \A l \in DOMAIN df : Proj(df[l], cols) = key => l <= k]

\* df.set_index(cols).to_dict()[col]
IndexToDict(df, cols, col) ==
    [key \in {Proj(df[k], cols) : k \in DOMAIN df} |-> LastRow(df, cols, key)[col]]

RECURSIVE SumSeq(_)
SumSeq(s) == IF s = <<>> THEN 0 ELSE s[1] + SumSeq(Tail(s))

\* df.groupby(cols).agg({col: 'sum'}).to_dict()[col]
GroupSum(df, cols, col) ==
    [key \in {Proj(df[k], cols) : k \in DOMAIN df} |->
        SumSeq(Column(SelectSeq(df, LAMBDA r : Proj(r, cols) = key), col))]

\* Series.nunique()
NUnique(s) == Cardinality(Range(s))


\* ------------------------------------------------------------------ state
VARIABLES
    pc,               \* the method run() executes next, or "done"
    err,              \* the exception that aborted run(), or "none"
    obras_file,       \* contents of the Obras sheet
    estoque_file,     \* contents of the Estoque sheet
    obras,            \* self.obras
    estoque,          \* self.estoque
    model_sets,       \* self.model_sets
    params,           \* self.params
    vars,             \* self.vars: the key sets of x and t
    constrs,          \* the constraints added to self.model, in order
    objective,        \* the objective of self.model: coefficient of each x
    status,           \* self.model.status
    objVal,           \* self.model.ObjVal
    X,                \* attribute X of each x variable after an optimal solve
    files,            \* the exports written so far
    output_var_X,     \* df_output_X
    df_real_output,   \* df_real_output
    output_agrupado   \* df_grouped

allvars == <<pc, err, obras_file, estoque_file, obras, estoque, model_sets, params,
             vars, constrs, objective, status, objVal, X, files, output_var_X,
             df_real_output, output_agrupado>>

\* ------------------------------------------------------------ define_sets
Define_J_i(ob) ==
    GroupUnique(DropDuplicates(ob, <<"obra", "cod_dep">>), "obra", "cod_dep")

Define_I_j(ob) ==
    GroupUnique(DropDuplicates(ob, <<"obra", "cod_dep">>), "cod_dep", "obra")

Define_M_i(ob) ==
    GroupUnique(DropDuplicates(ob, <<"obra", "cod_mat">>), "obra", "cod_mat")

DefineSets(ob, es) ==
    [I   |-> Unique(Column(ob, "obra")),
     J   |-> Unique(Column(es, "cod_dep")),
     M   |-> Unique(Column(es, "cod_mat")),
     J_i |-> Define_J_i(ob),
     I_j |-> Define_I_j(ob),
     M_i |-> Define_M_i(ob)]

\* ------------------------------------------------------ define_parameters
\* w[i]: rows deduplicated on (obra, prioridade), indexed by obra alone; of
\* two rows left for one obra the later one ends up in the dictionary
Define_w(ob) ==
    LET d == IndexToDict(DropDuplicates(ob, <<"obra", "prioridade">>),
                         <<"obra">>, "prioridade")
    IN  [i \in {key[1] : key \in DOMAIN d} |-> d[<<i>>]]

\* q[i,m]: the sum of qtd_dem over every raw row of (obra, cod_mat)
Define_q(ob) == GroupSum(ob, <<"obra", "cod_mat">>, "qtd_dem")

\* Q[j,m]
Define_Q(es) == IndexToDict(es, <<"cod_dep", "cod_mat">>, "estoque")

DefineParameters(ob, es) ==
    [w |-> Define_w(ob),
     q |-> Define_q(ob),
     Q |-> Define_Q(es),
     c |-> <<>>,      \* custos_transporte, passed through and never read
     N |-> NUnique(Column(ob, "obra")),
     D |-> NUnique(Column(ob, "cod_dep"))]

\* ----------------------------------------------- create_decision_variables
\* the keys of x: [(i, j) for i in I for j in J_i[i]]
XKeys(ms) == UNION {{<<i, j>> : j \in Range(ms.J_i[i])} : i \in Range(ms.I)}

\* the keys of t: [(k, j, m) for k in J for j in J for m in M if j != k]
TKeys(ms) ==
    {<<k, j, m>> \in Range(ms.J) \X Range(ms.J) \X Range(ms.M) : j # k}


\* variant: x over the dense product I x J, as the abandoned second optimizer
\* (src/src/soma_ponderada.py) creates it
CreateDecisionVariablesDense(ms) ==
    [x |-> Range(ms.I) \X Range(ms.J), t |-> TKeys(ms)]

CreateDecisionVariables(ms) == [x |-> XKeys(ms), t |-> TKeys(ms)]

\* ------------------------------------------------------ create_constraints
\* variant: the assignment constraint with right-hand side 2
OneExecutionLoose(ms, i) ==
    [name      |-> <<"C1_OneExecution", i>>,
     lhs_x     |-> [key \in {<<i, j>> : j \in Range(ms.J_i[i])} |-> 1],
     lhs_t     |-> {},
     rhs_const |-> 2,
     rhs_t     |-> {}]

\* A constraint  sum(lhs_x[k] * x[k]) + sum(t[k], k in lhs_t)
\*                 <= rhs_const + sum(t[k], k in rhs_t)
\* Restricao 1, one per obra i
OneExecution(ms, i) ==
    [name      |-> <<"C1_OneExecution", i>>,
     lhs_x     |-> [key \in {<<i, j>> : j \in Range(ms.J_i[i])} |-> 1],
     lhs_t     |-> {},
     rhs_const |-> 1,
     rhs_t     |-> {}]

\* self.params['Q'].get((j, m), 0)
InitialStock(pr, j, m) ==
    IF <<j, m>> \in DOMAIN pr.Q THEN pr.Q[<<j, m>>] ELSE 0

\* the obras whose x[i,j] enters the balance of (m, j)
Consumers(ms, m, j) == {i \in Range(ms.I_j[j]) : m \in Range(ms.M_i[i])}

\* variant: the balance with inflow and outflow exchanged
StockBalanceSwapped(ms, pr, m, j) ==
    [name      |-> <<"C2_StockBalance", m, j>>,
     lhs_x     |-> [key \in {<<i, j>> : i \in Consumers(ms, m, j)} |->
                       pr.q[<<key[1], m>>]],
     lhs_t     |-> {<<k, j, m>> : k \in Range(ms.J) \ {j}},
     rhs_const |-> InitialStock(pr, j, m),
     rhs_t     |-> {<<j, k, m>> : k \in Range(ms.J) \ {j}}]

\* Restricao 2, one per material m and deposito j
StockBalance(ms, pr, m, j) ==
    [name      |-> <<"C2_StockBalance", m, j>>,
     lhs_x     |-> [key \in {<<i, j>> : i \in Consumers(ms, m, j)} |->
                       pr.q[<<key[1], m>>]],
     lhs_t     |-> {<<j, k, m>> : k \in Range(ms.J) \ {j}},
     rhs_const |-> InitialStock(pr, j, m),
     rhs_t     |-> {<<k, j, m>> : k \in Range(ms.J) \ {j}}]

\* the (m, j) pairs in the order of the two nested loops
BalancePairs(ms) ==
    [n \in 1..(Len(ms.M) * Len(ms.J)) |->
        <<ms.M[((n - 1) \div Len(ms.J)) + 1], ms.J[((n - 1) % Len(ms.J)) + 1]>>]

\* the lookup that raises while the balance of (m, j) is built, or "none"
BalanceError(ms, pr, vs, m, j) ==
    IF j \notin DOMAIN ms.I_j THEN "KeyError:I_j"
    ELSE IF \E i \in Range(ms.I_j[j]) : i \notin DOMAIN ms.M_i THEN "KeyError:M_i"
    ELSE IF \E i \in Consumers(ms, m, j) : <<i, j>> \notin vs.x THEN "KeyError:x"
    ELSE IF \E i \in Consumers(ms, m, j) : <<i, m>> \notin DOMAIN pr.q THEN "KeyError:q"
    ELSE IF \E k \in Range(ms.J) \ {j} :
               <<j, k, m>> \notin vs.t \/ <<k, j, m>> \notin vs.t THEN "KeyError:t"
    ELSE "none"

\* the lookup that raises while the constraint of obra i is built, or "none"
OneExecutionError(ms, vs, i) ==
    IF i \notin DOMAIN ms.J_i THEN "KeyError:J_i"
    ELSE IF \E j \in Range(ms.J_i[i]) : <<i, j>> \notin vs.x THEN "KeyError:x"
    ELSE "none"

\* index of the first element of a sequence of outcomes that is an error, or
\* Len + 1
FirstError(outcomes) ==
    IF \A n \in DOMAIN outcomes : outcomes[n] = "none" THEN Len(outcomes) + 1
    ELSE CHOOSE n \in DOMAIN outcomes :
            /\ outcomes[n] # "none"
            /\ \A l \in 1..(n - 1) : outcomes[l] = "none"

\* the result of create_constraints: the constraints added, in order, and the
\* exception that stopped the loops (or "none")
CreateConstraints(ms, pr, vs) ==
    LET out1  == [n \in DOMAIN ms.I |-> OneExecutionError(ms, vs, ms.I[n])]
        f1    == FirstError(out1)
        c1    == [n \in 1..(f1 - 1) |-> OneExecution(ms, ms.I[n])]
        pairs == BalancePairs(ms)
        out2  == [n \in DOMAIN pairs |->
                     BalanceError(ms, pr, vs, pairs[n][1], pairs[n][2])]
        f2    == FirstError(out2)
        c2    == [n \in 1..(f2 - 1) |->
                     StockBalance(ms, pr, pairs[n][1], pairs[n][2])]
    IN  IF f1 <= Len(out1) THEN [constrs |-> c1, err |-> out1[f1]]
        ELSE IF f2 <= Len(out2) THEN [constrs |-> c1 \o c2, err |-> out2[f2]]
        ELSE [constrs |-> c1 \o c2, err |-> "none"]

\* -------------------------------------------------------- set_obj_priority
\* coefficient of x[i,j] in quicksum(x[i,j] * w[i] for i in I for j in J_i[i])
SetObjPriority(ms, pr) ==
    [key \in UNION {{<<i, j>> : j \in Range(ms.J_i[i])} : i \in Range(ms.I)} |->
        pr.w[key[1]]]


\* ---------------------------------------------------------------- optimize
\* The solver is a black box: it is modelled by what it must return, an
\* optimal point of the constraints it was given, or an infeasible status.
RECURSIVE SumOver(_, _)
SumOver(S, f) ==
    IF S = {} THEN 0
    ELSE LET k == CHOOSE k \in S : TRUE IN f[k] + SumOver(S \ {k}, f)

Satisfied(c, xv, tv) ==
    SumOver(DOMAIN c.lhs_x, [k \in DOMAIN c.lhs_x |-> c.lhs_x[k] * xv[k]])
        + SumOver(c.lhs_t, tv)
    <= c.rhs_const + SumOver(c.rhs_t, tv)

\* (xv, tv) satisfies every constraint of the list cs
Feasible(cs, xv, tv) == \A n \in DOMAIN cs : Satisfied(cs[n], xv, tv)

\* the t keys of one material, and the constraints whose flows are all of it
TBlock(vs, m) == {k \in vs.t : k[3] = m}

FlowsOf(c) == c.lhs_t \cup c.rhs_t

BlockLocal(cs, vs) ==
    \A n \in DOMAIN cs :
       FlowsOf(cs[n]) = {} \/ \E m \in {k[3] : k \in vs.t} : FlowsOf(cs[n]) \subseteq TBlock(vs, m)

\* some flow tv >= 0 completes xv to a feasible point.  When no constraint
\* mixes the flows of two materials the search is made material by material,
\* which finds the same answer as the search over all flows at once.
FlowExists(cs, vs, xv) ==
    IF BlockLocal(cs, vs)
    THEN /\ \A n \in DOMAIN cs : FlowsOf(cs[n]) = {} => Satisfied(cs[n], xv, <<>>)
         /\ \A m \in {k[3] : k \in vs.t} :
               \E tm \in [TBlock(vs, m) -> 0..MaxFlow] :
                  \A n \in DOMAIN cs :
                     (FlowsOf(cs[n]) # {} /\ FlowsOf(cs[n]) \subseteq TBlock(vs, m))
                        => Satisfied(cs[n], xv, tm)
    ELSE \E tv \in [vs.t -> 0..MaxFlow] : Feasible(cs, xv, tv)

\* the binary points xv of the feasible region
FeasibleX(cs, vs) == {xv \in [vs.x -> {0, 1}] : FlowExists(cs, vs, xv)}

ObjValue(obj, xv) == SumOver(DOMAIN obj, [k \in DOMAIN obj |-> obj[k] * xv[k]])

\* the outcomes model.optimize() can end with
Optimize(cs, vs, obj) ==
    LET F == FeasibleX(cs, vs)
    IN  IF F = {}
        THEN {[status |-> st, objVal |-> 0, X |-> <<>>] :
                 st \in {"INFEASIBLE", "INF_OR_UNBD"}}
        ELSE {[status |-> "OPTIMAL", objVal |-> ObjValue(obj, xv), X |-> xv] :
                 xv \in {y \in F : \A z \in F : ObjValue(obj, z) <= ObjValue(obj, y)}}

\* -------------------------------------------------------- generate_results
\* df_output_X: a row per x key whose X is 1
OutputVarX(vs, xv) ==
    {[obra |-> key[1], cod_dep |-> key[2], obra_atendida |-> 1] :
        key \in {k \in vs.x : xv[k] = 1}}

\* self.obras[['obra', 'cod_dep', 'prioridade']].drop_duplicates()
LeftTable(ob) ==
    LET d == DropDuplicates(ob, <<"obra", "cod_dep", "prioridade">>)
    IN  [k \in DOMAIN d |-> [obra       |-> d[k].obra,
                             cod_dep    |-> d[k].cod_dep,
                             prioridade |-> d[k].prioridade]]

\* validate='1:1': the merge keys (cod_dep, obra) are unique on either side
OneToOne(left, right) ==
    /\ \A k, l \in DOMAIN left :
          (left[k].obra = left[l].obra /\ left[k].cod_dep = left[l].cod_dep) => k = l
    /\ \A r1, r2 \in right :
          (r1.obra = r2.obra /\ r1.cod_dep = r2.cod_dep) => r1 = r2

\* variant: the unmatched rows filled with 1
ServedFillOne(row, right) ==
    IF \E r \in right : r.obra = row.obra /\ r.cod_dep = row.cod_dep
    THEN (CHOOSE r \in right : r.obra = row.obra /\ r.cod_dep = row.cod_dep).obra_atendida
    ELSE 1

\* obra_atendida of a row of the left table after the left merge and fillna(0)
Served(row, right) ==
    IF \E r \in right : r.obra = row.obra /\ r.cod_dep = row.cod_dep
    THEN (CHOOSE r \in right : r.obra = row.obra /\ r.cod_dep = row.cod_dep).obra_atendida
    ELSE 0

\* df_real_output
RealOutput(left, right) ==
    [k \in DOMAIN left |->
        [obra                |-> left[k].obra,
         cod_dep             |-> left[k].cod_dep,
         prioridade          |-> left[k].prioridade,
         obra_atendida       |-> Served(left[k], right),
         prioridade_atendida |-> Served(left[k], right) * left[k].prioridade]]

\* df_grouped, keyed by cod_dep
Grouped(real) ==
    [j \in Range(Column(real, "cod_dep")) |->
        LET rows == SelectSeq(real, LAMBDA r : r.cod_dep = j)
        IN  [NUM_OBRAS_ASSOCIADAS        |-> NUnique(Column(rows, "obra")),
             OBRAS_EXECUTADAS            |-> SumSeq(Column(rows, "obra_atendida")),
             SOMA_PRIORIDADES_EXECUTADAS |-> SumSeq(Column(rows, "prioridade_atendida")),
             SOMA_PRIORIDADES_ASSOCIADAS |-> SumSeq(Column(rows, "prioridade"))]]


\* ------------------------------------------------------------------ run()
Unset == <<>>

InitWith(ObrasFiles, EstoqueFiles) ==
    /\ obras_file \in ObrasFiles
    /\ estoque_file \in EstoqueFiles
    /\ pc = "read_inputs"
    /\ err = "none"
    /\ obras = Unset
    /\ estoque = Unset
    /\ model_sets = Unset
    /\ params = Unset
    /\ vars = Unset
    /\ constrs = <<>>
    /\ objective = Unset
    /\ status = "LOADED"
    /\ objVal = 0
    /\ X = Unset
    /\ files = {}
    /\ output_var_X = {}
    /\ df_real_output = Unset
    /\ output_agrupado = Unset

read_inputs ==
    /\ pc = "read_inputs" /\ err = "none"
    /\ obras' = obras_file
    /\ estoque' = estoque_file
    /\ pc' = "define_sets"
    /\ UNCHANGED <<err, obras_file, estoque_file, model_sets, params, vars, constrs,
                   objective, status, objVal, X, files, output_var_X,
                   df_real_output, output_agrupado>>

define_sets ==
    /\ pc = "define_sets" /\ err = "none"
    /\ model_sets' = DefineSets(obras, estoque)
    /\ pc' = "define_parameters"
    /\ UNCHANGED <<err, obras_file, estoque_file, obras, estoque, params, vars,
                   constrs, objective, status, objVal, X, files, output_var_X,
                   df_real_output, output_agrupado>>

define_parameters ==
    /\ pc = "define_parameters" /\ err = "none"
    /\ params' = DefineParameters(obras, estoque)
    /\ pc' = "create_decision_variables"
    /\ UNCHANGED <<err, obras_file, estoque_file, obras, estoque, model_sets, vars,
                   constrs, objective, status, objVal, X, files, output_var_X,
                   df_real_output, output_agrupado>>

create_decision_variables ==
    /\ pc = "create_decision_variables" /\ err = "none"
    /\ vars' = CreateDecisionVariables(model_sets)
    /\ pc' = "create_constraints"
    /\ UNCHANGED <<err, obras_file, estoque_file, obras, estoque, model_sets, params,
                   constrs, objective, status, objVal, X, files, output_var_X,
                   df_real_output, output_agrupado>>

\* an exception leaves pc at the method that raised it and ends the run
create_constraints ==
    /\ pc = "create_constraints" /\ err = "none"
    /\ LET res == CreateConstraints(model_sets, params, vars)
       IN  /\ constrs' = res.constrs
           /\ err' = res.err
           /\ pc' = IF res.err = "none" THEN "set_obj_priority" ELSE pc
    /\ UNCHANGED <<obras_file, estoque_file, obras, estoque, model_sets, params, vars,
                   objective, status, objVal, X, files, output_var_X,
                   df_real_output, output_agrupado>>

set_obj_priority ==
    /\ pc = "set_obj_priority" /\ err = "none"
    /\ objective' = SetObjPriority(model_sets, params)
    /\ pc' = "optimize"
    /\ UNCHANGED <<err, obras_file, estoque_file, obras, estoque, model_sets, params,
                   vars, constrs, status, objVal, X, files, output_var_X,
                   df_real_output, output_agrupado>>

optimize ==
    /\ pc = "optimize" /\ err = "none"
    /\ \E res \in Optimize(constrs, vars, objective) :
          /\ status' = res.status
          /\ objVal' = res.objVal
          /\ X' = res.X
    /\ pc' = "generate_results"
    /\ UNCHANGED <<err, obras_file, estoque_file, obras, estoque, model_sets, params,
                   vars, constrs, objective, files, output_var_X, df_real_output,
                   output_agrupado>>

\* run() calls generate_results whatever the status; elem.X raises when the
\* model holds no solution; the merge raises after output_var_X.csv is written
generate_results ==
    /\ pc = "generate_results" /\ err = "none"
    /\ IF status # "OPTIMAL" /\ vars.x # {}
       THEN /\ err' = "AttributeError:X"
            /\ UNCHANGED <<pc, files, output_var_X, df_real_output, output_agrupado>>
       ELSE LET right == OutputVarX(vars, X)
                left  == LeftTable(obras)
            IN  /\ output_var_X' = right
                /\ IF OneToOne(left, right)
                   THEN /\ df_real_output' = RealOutput(left, right)
                        /\ output_agrupado' = Grouped(RealOutput(left, right))
                        /\ files' = {"output_var_X.csv", "output_agrupado.csv"}
                        /\ pc' = "done"
                        /\ err' = err
                   ELSE /\ files' = {"output_var_X.csv"}
                        /\ err' = "MergeError"
                        /\ UNCHANGED <<pc, df_real_output, output_agrupado>>
    /\ UNCHANGED <<obras_file, estoque_file, obras, estoque, model_sets, params, vars,
                   constrs, objective, status, objVal, X>>

Next ==
    \/ read_inputs
    \/ define_sets
    \/ define_parameters
    \/ create_decision_variables
    \/ create_constraints
    \/ set_obj_priority
    \/ optimize
    \/ generate_results

\* ---------------------------------------------------------- input families
Priors == {5, 7}
Dems   == {4}
Qtys   == {-1, 0, 4}

ObrasRows ==
    {ObraRow(i, j, p, m, d) : i \in Tasks, j \in Sites, p \in Priors, m \in Mats, d \in Dems}

EstoqueRows == {EstoqueRow(j, m, e) : j \in Sites, m \in Mats, e \in Qtys}

Init == InitWith(SeqsOf(ObrasRows, 1, MaxObras), SeqsOf(EstoqueRows, 0, MaxEstoque))

Spec == Init /\ [][Next]_allvars

\* the same run on a narrower family of sheets: obras that need M1 alone, T2
\* of priority 5 alone, a stock of 4 wherever a row exists
ObrasRowsCore ==
    {ObraRow("T1", j, p, "M1", d) : j \in Sites, p \in Priors, d \in Dems}
        \cup {ObraRow("T2", j, 5, "M1", d) : j \in Sites, d \in Dems}

EstoqueRowsCore == {EstoqueRow(j, m, 4) : j \in Sites, m \in Mats}

InitCore ==
    InitWith(SeqsOf(ObrasRowsCore, 1, MaxObras), SeqsOf(EstoqueRowsCore, 0, MaxEstoque))

SpecCore == InitCore /\ [][Next]_allvars


\* ------------------------------------------------------------- properties
StageOf ==
    [read_inputs |-> 0, define_sets |-> 1, define_parameters |-> 2,
     create_decision_variables |-> 3, create_constraints |-> 4,
     set_obj_priority |-> 5, optimize |-> 6, generate_results |-> 7, done |-> 8]

\* create_constraints has run (to the end or to an exception)
ConstraintsRun == StageOf[pc] >= 5 \/ (pc = "create_constraints" /\ err # "none")

\* the candidate sites of obra i, read off the Obras sheet
CandidateSites(i) == {j \in Sites : \E k \in DOMAIN obras :
                                       obras[k].obra = i /\ obras[k].cod_dep = j}

SitesChosen(xv, i) == {j \in Sites : <<i, j>> \in DOMAIN xv /\ xv[<<i, j>>] = 1}

\* C1: create_constraints emits exactly one assignment constraint per obra, and
\* no feasible point of the model built has an obra at more than one deposito.
C1_OneExecution ==
    /\ ConstraintsRun =>
          \A i \in Range(model_sets.I) :
             Cardinality({n \in DOMAIN constrs :
                             constrs[n].name = <<"C1_OneExecution", i>>}) = 1
    /\ pc = "optimize" =>
          \A xv \in FeasibleX(constrs, vars) :
             \A i \in Tasks : Cardinality(SitesChosen(xv, i)) <= 1

\* an obra with two candidate depositos is served, at one of them
C1_Witness ==
    /\ pc = "done"
    /\ \E i \in Tasks : Cardinality(CandidateSites(i)) = 2
                        /\ Cardinality(SitesChosen(X, i)) = 1


\* Q[j,m] as the claim reads it off the Estoque sheet: 0 when no row has (j, m)
StockOrZero(j, m) ==
    IF \E k \in DOMAIN estoque : estoque[k].cod_dep = j /\ estoque[k].cod_mat = m
    THEN params.Q[<<j, m>>] ELSE 0

\* sum over the obras i that list j and need m of x[i,j] * q[i,m]
ConsumptionAt(xv, j, m) ==
    LET users == {i \in Range(model_sets.I) :
                     /\ j \in Range(model_sets.J_i[i])
                     /\ m \in Range(model_sets.M_i[i])}
    IN  SumOver(users, [i \in users |-> xv[<<i, j>>] * params.q[<<i, m>>]])

Outflow(tv, j, m) ==
    LET others == Range(model_sets.J) \ {j}
    IN  SumOver(others, [k \in others |-> tv[<<j, k, m>>]])

Inflow(tv, j, m) ==
    LET others == Range(model_sets.J) \ {j}
    IN  SumOver(others, [k \in others |-> tv[<<k, j, m>>]])

\* (xv, tm) satisfies every constraint whose flows are all of material m
FeasibleFor(m, xv, tm) ==
    \A n \in DOMAIN constrs :
       FlowsOf(constrs[n]) \subseteq TBlock(vars, m) => Satisfied(constrs[n], xv, tm)

\* C2: in every feasible point of the model built, for every deposito j and
\* material m, consumption at j plus outflow from j is at most Q[j,m] (0 when
\* the Estoque sheet has no row of (j, m)) plus inflow to j.  The flows of the
\* other materials do not enter the inequality of m, so they are left free.
C2_MassBalance ==
    pc = "optimize" =>
       \A m \in Range(model_sets.M) :
          \A xv \in [vars.x -> {0, 1}] :
             \A tm \in [TBlock(vars, m) -> 0..MaxFlow] :
                FeasibleFor(m, xv, tm) =>
                   \A j \in Range(model_sets.J) :
                      ConsumptionAt(xv, j, m) + Outflow(tm, j, m)
                         <= StockOrZero(j, m) + Inflow(tm, j, m)

\* an obra is served at a deposito whose stock of a material it needs is 0 by
\* absence of the stock row, on inflow alone
C2_Witness ==
    /\ pc = "done"
    /\ \E key \in vars.x :
          /\ X[key] = 1
          /\ key[2] \in Range(model_sets.J)
          /\ \E m \in Range(model_sets.M_i[key[1]]) \cap Range(model_sets.M) :
                /\ <<key[2], m>> \notin DOMAIN params.Q
                /\ params.q[<<key[1], m>>] > 0

XRefs ==
    UNION {DOMAIN constrs[n].lhs_x : n \in DOMAIN constrs} \cup DOMAIN objective

\* C8: the keys of x are exactly the (i, j) with j a candidate of i, I_j is the
\* inverse of J_i, every x[i,j] the constraints and the objective look up is
\* a key of x, and no lookup of x has failed.
C8_SparseDomain ==
    /\ StageOf[pc] >= 2 =>
          \A i \in Tasks, j \in Sites :
             (j \in DOMAIN model_sets.I_j /\ i \in Range(model_sets.I_j[j]))
                <=> (i \in DOMAIN model_sets.J_i /\ j \in Range(model_sets.J_i[i]))
    /\ StageOf[pc] >= 4 =>
          /\ vars.x = {<<i, j>> \in Tasks \X Sites : j \in CandidateSites(i)}
          /\ XRefs \subseteq vars.x
    /\ err # "KeyError:x"

\* the run ends with a sparse key set that differs from the dense product and
\* a balance constraint that looks x up
C8_Witness ==
    /\ pc = "done"
    /\ vars.x # Range(model_sets.I) \X Range(model_sets.J)
    /\ \E n \in DOMAIN constrs :
          constrs[n].name[1] = "C2_StockBalance" /\ DOMAIN constrs[n].lhs_x # {}


\* C3: create_constraints ends without an exception and leaves one balance
\* constraint for every (material, deposito) pair of M x J; for a deposito no
\* obra lists, the constraint has no x term.
C3_BalanceForEveryPair ==
    /\ pc = "create_constraints" => err = "none"
    /\ StageOf[pc] >= 5 =>
          \A m \in Range(model_sets.M) : \A j \in Range(model_sets.J) :
             \E n \in DOMAIN constrs :
                /\ constrs[n].name = <<"C2_StockBalance", m, j>>
                /\ (\A i \in Tasks : j \notin CandidateSites(i))
                      => DOMAIN constrs[n].lhs_x = {}

\* the two rows of the example of C4
C4_Task == {ObraRow("T1", "S1", 5, "M1", 4), ObraRow("T1", "S2", 5, "M1", 4)}

\* C4: with Task = {(T1,S1,5,M1,4), (T1,S2,5,M1,4)} and a Stock relation (of at
\* least one row) with Q = 0 for M1 at every site (a stock row of 0, or no
\* stock row), the solve ends optimal with objective 0 and every x at 0.
C4_NoStockNoService ==
    (/\ StageOf[pc] >= 7
     /\ Len(obras) = 2 /\ Range(obras) = C4_Task
     /\ estoque # <<>>
     /\ \A j \in Sites : InitialStock(params, j, "M1") = 0)
    => (status = "OPTIMAL" /\ objVal = 0 /\ \A key \in vars.x : X[key] = 0)

\* C5: after a solve that ends infeasible or unbounded no exception is raised
\* and nothing is exported, and generate_results is entered only after an
\* optimal solve.
C5_NoSolutionReported ==
    /\ status \in {"INFEASIBLE", "INF_OR_UNBD"} => (err = "none" /\ files = {})
    /\ pc = "generate_results" => status = "OPTIMAL"

\* two rows of one obra carry different priorities
ConflictingPriority(ob) ==
    \E k, l \in DOMAIN ob : ob[k].obra = ob[l].obra /\ ob[k].prioridade # ob[l].prioridade

\* C6: a sheet with two priorities for one obra aborts the run at the
\* set/parameter stage with a data-integrity error: no variable, constraint or
\* solve follows, and no w[i] is kept for the conflict.
C6_ConflictAborts ==
    (StageOf[pc] >= 1 /\ ConflictingPriority(obras)) =>
       /\ StageOf[pc] <= 2
       /\ params = Unset

\* C9: every x[i,j] created is, for every material m the obra needs, a term of
\* the balance constraint of (m, j), with coefficient q[i,m] (checked on the
\* runs whose Estoque sheet has a row).
C9_DemandCharged ==
    (pc = "optimize" /\ estoque # <<>>) =>
       \A key \in vars.x : \A m \in Range(model_sets.M_i[key[1]]) :
          \E n \in DOMAIN constrs :
             /\ constrs[n].name = <<"C2_StockBalance", m, key[2]>>
             /\ key \in DOMAIN constrs[n].lhs_x
             /\ constrs[n].lhs_x[key] = params.q[<<key[1], m>>]

\* the Obras sheet has the input shape: for each obra exactly one row per
\* (candidate site, required material), with one demand per material
InputShape(ob) ==
    /\ \A k, l \in DOMAIN ob :
          (ob[k].obra = ob[l].obra /\ ob[k].cod_dep = ob[l].cod_dep
             /\ ob[k].cod_mat = ob[l].cod_mat) => k = l
    /\ \A k, l \in DOMAIN ob :
          ob[k].obra = ob[l].obra =>
             /\ \E n \in DOMAIN ob : /\ ob[n].obra = ob[k].obra
                                     /\ ob[n].cod_dep = ob[k].cod_dep
                                     /\ ob[n].cod_mat = ob[l].cod_mat
             /\ (ob[k].cod_mat = ob[l].cod_mat => ob[k].qtd_dem = ob[l].qtd_dem)

\* the demand d of obra i for material m on the sheet
DemandOf(ob, i, m) ==
    (ob[CHOOSE k \in DOMAIN ob : ob[k].obra = i /\ ob[k].cod_mat = m]).qtd_dem

\* C10: on a sheet of the input shape the balance constraint of (m, j) charges
\* x[i,j] with the demand d of i for m, whatever the number of candidate sites.
C10_ChargeIsDemand ==
    (pc = "optimize" /\ InputShape(obras)) =>
       \A n \in DOMAIN constrs :
          constrs[n].name[1] = "C2_StockBalance" =>
             \A key \in DOMAIN constrs[n].lhs_x :
                constrs[n].lhs_x[key] = DemandOf(obras, key[1], constrs[n].name[2])

====
